---------------------------- MODULE Spec2Model ----------------------------
(***************************************************************************)
(* Model of urh's spectrogram computation (signalprocessing/Spectrogram.py)*)
(* and of the drag handling of simulator scene items                       *)
(* (signalprocessing/GraphicsItem.py).                                     *)
(*                                                                         *)
(* Representation choices:                                                 *)
(*  - a complex number is a pair <<re, im>> of integers;                   *)
(*  - an overlap factor is a fraction [num, den] (den a power of two, so   *)
(*    that the float product overlap_factor * window_size is exact);       *)
(*  - window weights are integers in units of 1/4 (np.hanning(4) is        *)
(*    0, 3/4, 3/4, 0), and a cell of the spectrogram matrix holds the      *)
(*    squared magnitude p of the (scaled) DFT bin: the decibel value       *)
(*    20*log10(|X|) = 10*log10(p/16) is a strictly increasing function of  *)
(*    p (p = 0 stands for -inf), so min, max and equality of cells are     *)
(*    those of the decibel values;                                         *)
(*  - the DFT is computed exactly for lengths dividing 4, where the        *)
(*    twiddle factors are 1, -i, -1, i.                                    *)
(***************************************************************************)
EXTENDS Integers, Sequences, FiniteSets, TLC

VARIABLES
    \* the Spectrogram object
    exists,             \* TRUE once __init__ has returned normally
    samples,            \* self.__samples
    sample_rate,        \* self.__sample_rate
    window_size,        \* self.__window_size
    overlap_factor,     \* self.__overlap_factor
    window_function,    \* self.__window_function
    data,               \* self.data
    data_min,           \* self.data_min
    data_max,           \* self.data_max
    \* the last call
    op,                 \* name of the last operation called
    args,               \* its arguments (static methods)
    ret,                \* what it returned or raised
    stft_locals,        \* hop_size, padded length, num_frames of the last stft()
    \* the graphics scene
    item_under_mouse,   \* D.item_under_mouse of the dragged item D
    drag_over,          \* item -> drag_over
    drop_indicator_position, \* item -> drop_indicator_position
    hover_active,       \* item -> hover_active
    accept_drops,       \* item -> acceptDrops()
    selected            \* item -> isSelected()

specvars == <<exists, samples, sample_rate, window_size, overlap_factor,
              window_function, data, data_min, data_max>>
callvars == <<op, args, ret, stft_locals>>
scenevars == <<item_under_mouse, drag_over, drop_indicator_position,
               hover_active, accept_drops, selected>>
vars == <<specvars, callvars, scenevars>>

None == "None"

-----------------------------------------------------------------------------
(* Bounds of the model *)

MaxLen == 6          \* longest sample buffer handed to the constructor
MaxObjLen == 2       \* longest sample buffer in the setter specification
MaxVal == 4          \* largest cell value / bound handed to the lookup
MaxColors == 4       \* longest colormap
MaxRows == 2         \* rows of a looked-up matrix
MaxCols == 2         \* columns of a looked-up matrix
MaxHeight == 3       \* height of a colormap strip

-----------------------------------------------------------------------------
(* Python / numpy arithmetic *)

Abs(x) == IF x < 0 THEN 0 - x ELSE x
Sign(x) == IF x < 0 THEN 0 - 1 ELSE 1

\* int(a / b): truncation toward zero (b # 0)
IntTrunc(a, b) ==
    IF (a >= 0) = (b > 0) THEN Abs(a) \div Abs(b) ELSE 0 - (Abs(a) \div Abs(b))

\* a // b on Python ints (b # 0): floor
PyFloorDiv(a, b) == IF b > 0 THEN a \div b ELSE (0 - a) \div (0 - b)

\* a % b on Python ints (b # 0): the sign of the divisor
PyMod(a, b) == a - b * PyFloorDiv(a, b)

\* seq[start:stop] on a Python sequence (0-based, negative indices from the end)
PyIndex(i, n) == IF i < 0 THEN (IF i + n < 0 THEN 0 ELSE i + n)
                 ELSE (IF i > n THEN n ELSE i)

PySlice(seq, start, stop) ==
    LET a == PyIndex(start, Len(seq))
        b == PyIndex(stop, Len(seq))
    IN  IF a >= b THEN << >> ELSE [j \in 1..(b - a) |-> seq[a + j]]

CAdd(x, y) == <<x[1] + y[1], x[2] + y[2]>>
CMul(x, y) == <<x[1] * y[1] - x[2] * y[2], x[1] * y[2] + x[2] * y[1]>>
CScale(c, x) == <<c * x[1], c * x[2]>>
\* |x|^2
Power(x) == x[1] * x[1] + x[2] * x[2]

RECURSIVE CSum(_, _)
CSum(f, n) == IF n = 0 THEN <<0, 0>> ELSE CAdd(CSum(f, n - 1), f[n])

\* exp(-2*pi*i*e/n) for n dividing 4
Twiddle(n, e) ==
    LET q == (e * (4 \div n)) % 4
    IN  CASE q = 0 -> <<1, 0>>
          [] q = 1 -> <<0, 0 - 1>>
          [] q = 2 -> <<0 - 1, 0>>
          [] q = 3 -> <<0, 1>>

\* np.fft.fft of one frame x (bins 0..n-1 at positions 1..n)
DFT(x) ==
    LET n == Len(x)
    IN  [k \in 1..n |->
            CSum([j \in 1..n |-> CMul(x[j], Twiddle(n, (j - 1) * (k - 1)))], n)]

\* np.roll(seq, shift) along one axis
Roll(seq, shift) ==
    LET n == Len(seq)
    IN  [j \in 1..n |-> seq[((j - 1 - shift) % n) + 1]]

RECURSIVE SeqMin(_, _)
SeqMin(seq, n) ==
    IF n = 1 THEN seq[1]
    ELSE LET m == SeqMin(seq, n - 1) IN IF seq[n] < m THEN seq[n] ELSE m

RECURSIVE SeqMax(_, _)
SeqMax(seq, n) ==
    IF n = 1 THEN seq[1]
    ELSE LET m == SeqMax(seq, n - 1) IN IF seq[n] > m THEN seq[n] ELSE m

-----------------------------------------------------------------------------
(* Inputs *)

WindowSizes == {1, 2, 4}
WindowFunctions == {"ones", "hanning"}
SampleRates == {1, 2}

\* -1/2, 0, 1/4, 1/2, 3/4, 1, 3/2
OverlapFactors == {[num |-> n, den |-> 4] : n \in {0 - 2, 0, 1, 2, 3, 4, 6}}

\* sample buffers: silence, a ramp, a complex tone at a quarter of the sample rate
Signal(kind, len) ==
    [j \in 1..len |->
        CASE kind = "zeros" -> <<0, 0>>
          [] kind = "ramp" -> <<j, 0>>
          [] kind = "tone" -> Twiddle(4, 3 * (j - 1))]

SampleBuffers(maxlen) ==
    {Signal(kind, len) : kind \in {"zeros", "ramp", "tone"}, len \in 0..maxlen}

\* window_function(window_size), in units of 1/4
WindowWeights(wf, w) ==
    IF wf = "ones" THEN [j \in 1..w |-> 4]
    ELSE CASE w = 1 -> <<4>>
           [] w = 2 -> <<0, 0>>
           [] w = 4 -> <<0, 3, 3, 0>>

-----------------------------------------------------------------------------
(* Spectrogram.stft *)

HopSize(w, f) == w - IntTrunc(f.num * w, f.den)

\* number of zeros appended (hop # 0)
PadLength(len, w, hop) == PyMod(len - w, hop)

PaddedSamples(s, w, hop) ==
    s \o [j \in 1..PadLength(Len(s), w, hop) |-> <<0, 0>>]

NumFrames(plen, w, hop) == PyFloorDiv(plen - w, hop) + 1

\* whether numpy can broadcast shapes (a,) and (b,) together
Broadcastable(a, b) == a = b \/ a = 1 \/ b = 1

\* slice * window with numpy broadcasting (for broadcastable lengths)
Windowed(slice, window) ==
    CASE Len(slice) = Len(window) ->
            [j \in 1..Len(window) |-> CScale(window[j], slice[j])]
      [] Len(slice) = 1 /\ Len(window) # 1 ->
            [j \in 1..Len(window) |-> CScale(window[j], slice[1])]
      [] OTHER ->
            [j \in 1..Len(slice) |-> CScale(window[1], slice[j])]

\* padded_samples[i*hop_size:i*hop_size+self.window_size], i from 0
FrameSlice(padded, w, hop, i) == PySlice(padded, i * hop, i * hop + w)

\* what a run of stft() read and computed; reached tells how far it got
\* ("hop": hop_size only, "frames": the padding and the frame count too)
NoLocals ==
    [reached |-> "none", len |-> 0, window_size |-> 0,
     overlap_factor |-> [num |-> 0, den |-> 1],
     hop_size |-> 0, padded_len |-> 0, num_frames |-> 0]

\* the outcome of stft() on the given fields: what is raised or returned,
\* and the locals reached
Stft(s, w, f, wf) ==
    LET window == WindowWeights(wf, w)
        hop == HopSize(w, f)
        read == [NoLocals EXCEPT !.reached = "hop", !.len = Len(s),
                                 !.window_size = w, !.overlap_factor = f,
                                 !.hop_size = hop]
    IN  IF hop = 0
        THEN \* (len - window_size) % 0
             [status |-> "ZeroDivisionError", frames |-> << >>, locals |-> read]
        ELSE IF PadLength(Len(s), w, hop) < 0
        THEN \* np.zeros of a negative length
             [status |-> "ValueError", frames |-> << >>, locals |-> read]
        ELSE
        LET padded == PaddedSamples(s, w, hop)
            nf == NumFrames(Len(padded), w, hop)
            loc == [read EXCEPT !.reached = "frames", !.padded_len = Len(padded),
                                !.num_frames = nf]
        IN  IF nf <= 0
            THEN \* np.fft.fft of no data points
                 [status |-> "ValueError", frames |-> << >>, locals |-> loc]
            ELSE
            LET sl == [i \in 1..nf |-> FrameSlice(padded, w, hop, i - 1)]
                fr == [i \in 1..nf |-> Windowed(sl[i], window)]
            IN  IF \/ \E i \in 1..nf : ~Broadcastable(Len(sl[i]), Len(window))
                   \/ \E i \in 1..nf : Len(fr[i]) # Len(fr[1])
                   \/ Len(fr[1]) = 0
                THEN [status |-> "ValueError", frames |-> << >>, locals |-> loc]
                ELSE [status |-> "ok", frames |-> [i \in 1..nf |-> DFT(fr[i])],
                      locals |-> loc]

-----------------------------------------------------------------------------
(* Spectrogram.__calculate_spectrogram *)

\* np.fft.fftshift(x) of a 2-D array without axes: every axis is rolled by
\* half its length
FftShift(x) ==
    LET rows == Roll(x, Len(x) \div 2)
    IN  [i \in 1..Len(rows) |-> Roll(rows[i], Len(rows[i]) \div 2)]

\* 20 * np.log10(np.abs(x)), as the squared magnitude
Decibel(x) == [i \in 1..Len(x) |-> [k \in 1..Len(x[i]) |-> Power(x[i][k])]]

CalculateSpectrogram(frames) == Decibel(FftShift(frames))

\* np.min / np.max over the whole matrix
MatrixMin(m) == SeqMin([i \in 1..Len(m) |-> SeqMin(m[i], Len(m[i]))], Len(m))
MatrixMax(m) == SeqMax([i \in 1..Len(m) |-> SeqMax(m[i], Len(m[i]))], Len(m))

\* the time_bins and freq_bins properties
time_bins == Len(data)
freq_bins == Len(data[1])

-----------------------------------------------------------------------------
(* Spectrogram: constructor, setters, stft() *)

NoObject ==
    /\ exists = FALSE
    /\ samples = None /\ sample_rate = None /\ window_size = None
    /\ overlap_factor = None /\ window_function = None
    /\ data = None /\ data_min = None /\ data_max = None

NoCall == op = None /\ args = None /\ ret = None /\ stft_locals = NoLocals

\* Spectrogram(s, rate, w, f, wf), once; an exception of stft() leaves no object
Construct(s, rate, w, f, wf) ==
    LET r == Stft(s, w, f, wf)
    IN  /\ op = None
        /\ op' = "__init__"
        /\ args' = None
        /\ stft_locals' = r.locals
        /\ IF r.status = "ok"
           THEN LET d == CalculateSpectrogram(r.frames)
                IN  /\ exists' = TRUE
                    /\ samples' = s
                    /\ sample_rate' = rate
                    /\ window_size' = w
                    /\ overlap_factor' = f
                    /\ window_function' = wf
                    /\ data' = d
                    /\ data_min' = MatrixMin(d)
                    /\ data_max' = MatrixMax(d)
                    /\ ret' = [status |-> "ok"]
           ELSE /\ exists' = FALSE
                /\ samples' = None /\ sample_rate' = None /\ window_size' = None
                /\ overlap_factor' = None /\ window_function' = None
                /\ data' = None /\ data_min' = None /\ data_max' = None
                /\ ret' = [status |-> r.status]
        /\ UNCHANGED scenevars

\* self.stft() on the object as it is now
CallStft ==
    /\ exists
    /\ LET r == Stft(samples, window_size, overlap_factor, window_function)
       IN  /\ op' = "stft"
           /\ args' = None
           /\ ret' = [status |-> r.status, frames |-> r.frames]
           /\ stft_locals' = r.locals
    /\ UNCHANGED <<specvars, scenevars>>

SetSamples(v) ==
    /\ exists
    /\ samples' = v
    /\ op' = "samples" /\ args' = None /\ ret' = None
    /\ UNCHANGED <<exists, sample_rate, window_size, overlap_factor,
                   window_function, data, data_min, data_max,
                   stft_locals, scenevars>>

SetSampleRate(v) ==
    /\ exists
    /\ sample_rate' = v
    /\ op' = "sample_rate" /\ args' = None /\ ret' = None
    /\ UNCHANGED <<exists, samples, window_size, overlap_factor,
                   window_function, data, data_min, data_max,
                   stft_locals, scenevars>>

\* a window_size setter that rebuilds the cached matrix
SetWindowSizeRecompute(v) ==
    LET r == Stft(samples, v, overlap_factor, window_function)
        d == IF r.status = "ok" THEN CalculateSpectrogram(r.frames) ELSE << >>
    IN  /\ exists
        /\ window_size' = v
        /\ data' = d
        /\ data_min' = IF r.status = "ok" THEN MatrixMin(d) ELSE 0
        /\ data_max' = IF r.status = "ok" THEN MatrixMax(d) ELSE 0
        /\ op' = "window_size" /\ args' = None /\ ret' = None
        /\ UNCHANGED <<exists, samples, sample_rate, overlap_factor,
                       window_function, stft_locals, scenevars>>

SetWindowSize(v) ==
    /\ exists
    /\ window_size' = v
    /\ op' = "window_size" /\ args' = None /\ ret' = None
    /\ UNCHANGED <<exists, samples, sample_rate, overlap_factor,
                   window_function, data, data_min, data_max,
                   stft_locals, scenevars>>

SetOverlapFactor(v) ==
    /\ exists
    /\ overlap_factor' = v
    /\ op' = "overlap_factor" /\ args' = None /\ ret' = None
    /\ UNCHANGED <<exists, samples, sample_rate, window_size,
                   window_function, data, data_min, data_max,
                   stft_locals, scenevars>>

SetWindowFunction(v) ==
    /\ exists
    /\ window_function' = v
    /\ op' = "window_function" /\ args' = None /\ ret' = None
    /\ UNCHANGED <<exists, samples, sample_rate, window_size,
                   overlap_factor, data, data_min, data_max,
                   stft_locals, scenevars>>

NoScene ==
    /\ item_under_mouse = None
    /\ drag_over = None
    /\ drop_indicator_position = None
    /\ hover_active = None
    /\ accept_drops = None
    /\ selected = None

\* the transform: construction over the full input range, then stft()
InitStft == NoObject /\ NoCall /\ NoScene

NewSpectrogram ==
    \E s \in SampleBuffers(MaxLen), rate \in SampleRates, w \in WindowSizes,
       f \in OverlapFactors, wf \in WindowFunctions :
        Construct(s, rate, w, f, wf)

NextStft == NewSpectrogram \/ CallStft

SpecStft == InitStft /\ [][NextStft]_vars

\* the object's life: one construction over a small input range, then any
\* sequence of setter calls and stft() calls
ObjSampleBuffers == {Signal("ramp", len) : len \in 0..MaxObjLen}
ObjWindowSizes == {1, 2}
ObjOverlapFactors == {[num |-> n, den |-> 2] : n \in {0, 1, 2}}

InitObject == NoObject /\ NoCall /\ NoScene

NewObject ==
    \E s \in ObjSampleBuffers, rate \in SampleRates, w \in ObjWindowSizes,
       f \in ObjOverlapFactors, wf \in WindowFunctions :
        Construct(s, rate, w, f, wf)

NextObject ==
    \/ NewObject
    \/ CallStft
    \/ \E v \in ObjSampleBuffers : SetSamples(v)
    \/ \E v \in SampleRates : SetSampleRate(v)
    \/ \E v \in ObjWindowSizes : SetWindowSize(v)
    \/ \E v \in ObjOverlapFactors : SetOverlapFactor(v)
    \/ \E v \in WindowFunctions : SetWindowFunction(v)

SpecObject == InitObject /\ [][NextObject]_vars

-----------------------------------------------------------------------------
(* Spectrogram.apply_bgra_lookup, create_image, create_colormap_image *)

\* an optional argument: << >> is None, <<v>> is the value v
NoValue == << >>
Given(v) == <<v>>

\* a float: a fraction num/den, or nan, inf, -inf
Finite(num, den) == [kind |-> "finite", num |-> num, den |-> den]
NonFinite(kind) == [kind |-> kind, num |-> 0, den |-> 1]

\* the builds whose float-to-int conversion of nan and inf differ
Builds == {"x86_64", "aarch64"}

\* the matrix looked up as it is, without the transposition
NotTransposed(m) == m

\* data.T
Transpose(m) ==
    [c \in 1..Len(m[1]) |-> [r \in 1..Len(m) |-> m[r][c]]]

\* a normalization that does not subtract data_min
NormalizedValueNoOffset(v, dmin, dmax, n) ==
    IF dmax - dmin # 0
    THEN Finite((n - 1) * v, dmax - dmin)
    ELSE IF v = 0 \/ n - 1 = 0 THEN NonFinite("nan")
    ELSE IF v > 0 THEN NonFinite("inf")
    ELSE NonFinite("-inf")

\* (len(colormap) - 1) * ((v - data_min) / (data_max - data_min)) on floats:
\* a division by zero gives nan (0/0) or an infinity, and 0 * inf is nan
NormalizedValue(v, dmin, dmax, n) ==
    IF dmax - dmin # 0
    THEN Finite((n - 1) * (v - dmin), dmax - dmin)
    ELSE IF v - dmin = 0 \/ n - 1 = 0 THEN NonFinite("nan")
    ELSE IF v - dmin > 0 THEN NonFinite("inf")
    ELSE NonFinite("-inf")

\* a conversion that rounds half up instead of truncating
AsTypeIntRounded(x, build) ==
    IF x.kind = "finite"
    THEN [sat |-> "no",
          v |-> (2 * x.num * Sign(x.den) + Abs(x.den)) \div (2 * Abs(x.den))]
    ELSE [sat |-> "min", v |-> 0]

\* x.astype(np.int): truncation toward zero; the conversion of nan and of an
\* infinity is undefined in C and gives the smallest integer on x86_64, and
\* 0 (nan) or the saturated value (inf) on aarch64
AsTypeInt(x, build) ==
    CASE x.kind = "finite" -> [sat |-> "no", v |-> IntTrunc(x.num, x.den)]
      [] x.kind = "nan" ->
            IF build = "x86_64" THEN [sat |-> "min", v |-> 0]
            ELSE [sat |-> "no", v |-> 0]
      [] x.kind = "inf" ->
            IF build = "x86_64" THEN [sat |-> "min", v |-> 0]
            ELSE [sat |-> "max", v |-> 0]
      [] x.kind = "-inf" -> [sat |-> "min", v |-> 0]

\* the index np.take(..., mode='clip') reads for i, on n entries
ClipIndex(i, n) ==
    CASE i.sat = "min" -> 0
      [] i.sat = "max" -> n - 1
      [] OTHER -> IF i.v < 0 THEN 0 ELSE IF i.v > n - 1 THEN n - 1 ELSE i.v

\* the indices apply_bgra_lookup takes from the colormap, in the layout of
\* its result (the transpose of data)
LookupIndices(d, n, dmin, dmax, normalize, build) ==
    LET dt == Transpose(d)
    IN  [c \in 1..Len(dt) |-> [r \in 1..Len(dt[c]) |->
            LET x == IF normalize
                     THEN NormalizedValue(dt[c][r], dmin[1], dmax[1], n)
                     ELSE Finite(dt[c][r], 1)
            IN  ClipIndex(AsTypeInt(x, build), n)]]

\* apply_bgra_lookup(data, colormap, data_min, data_max, normalize)
BgraLookup(d, colormap, dmin, dmax, normalize, build) ==
    IF normalize /\ (dmin = NoValue \/ dmax = NoValue)
    THEN [status |-> "ValueError", indices |-> << >>, image |-> << >>,
          div_by_zero |-> FALSE]
    ELSE LET idx == LookupIndices(d, Len(colormap), dmin, dmax, normalize, build)
         IN  [status |-> "ok",
              indices |-> idx,
              image |-> [c \in 1..Len(idx) |-> [r \in 1..Len(idx[c]) |->
                            colormap[idx[c][r] + 1]]],
              div_by_zero |-> normalize /\ dmax[1] - dmin[1] = 0]

\* create_image: the QImage over the looked-up array, of width shape[1] and
\* height shape[0]
CreateImage(d, colormap, dmin, dmax, normalize, build) ==
    LET r == BgraLookup(d, colormap, dmin, dmax, normalize, build)
    IN  IF r.status # "ok"
        THEN [status |-> r.status, image |-> << >>, width |-> 0, height |-> 0]
        ELSE [status |-> "ok", image |-> r.image,
              width |-> Len(r.image[1]), height |-> Len(r.image)]

\* colormaps.calculate_numpy_brga_for(name): n distinct BGRA entries
Colormap(n) == [i \in 1..n |-> <<i - 1, 0, n - i, 255>>]

\* the index array create_colormap_image builds: row i holds i, height times
StripIndices(n, height) == [i \in 1..n |-> [r \in 1..height |-> i - 1]]

\* matrices handed to the lookup: v0 at the top left, growing along both axes
GradientMatrix(v0, rows, cols) ==
    [r \in 1..rows |-> [c \in 1..cols |-> v0 + 2 * (r - 1) + (c - 1)]]

DataValues == (0 - 1)..MaxVal
OptionalBounds == {NoValue} \cup {Given(v) : v \in DataValues}

\* the pending call of a static method, with its arguments
LookupArgs ==
    [call : {"apply_bgra_lookup"},
     data : {GradientMatrix(v0, rows, cols) :
                v0 \in DataValues, rows \in 1..MaxRows, cols \in 1..MaxCols},
     colormap : {Colormap(n) : n \in 1..MaxColors},
     data_min : OptionalBounds,
     data_max : OptionalBounds,
     normalize : BOOLEAN]

StripArgs ==
    [call : {"create_colormap_image"},
     colormap : {Colormap(n) : n \in 1..MaxColors},
     height : 1..MaxHeight]

\* Spectrogram.apply_bgra_lookup(data, colormap, data_min, data_max, normalize)
\* on one of the builds
ApplyBgraLookup(build) ==
    /\ op = None
    /\ args.call = "apply_bgra_lookup"
    /\ op' = "apply_bgra_lookup"
    /\ ret' = BgraLookup(args.data, args.colormap, args.data_min, args.data_max,
                         args.normalize, build)
    /\ UNCHANGED <<args, stft_locals, specvars, scenevars>>

\* Spectrogram.create_colormap_image(colormap_name, height)
CreateColormapImage(build) ==
    /\ op = None
    /\ args.call = "create_colormap_image"
    /\ op' = "create_colormap_image"
    /\ ret' = CreateImage(StripIndices(Len(args.colormap), args.height),
                          args.colormap, NoValue, NoValue, FALSE, build)
    /\ UNCHANGED <<args, stft_locals, specvars, scenevars>>

InitLookup ==
    /\ NoObject /\ NoScene
    /\ op = None /\ ret = None /\ stft_locals = NoLocals
    /\ args \in LookupArgs \cup StripArgs

NextLookup ==
    \/ \E build \in Builds : ApplyBgraLookup(build)
    \/ \E build \in Builds : CreateColormapImage(build)

SpecLookup == InitLookup /\ [][NextLookup]_vars

-----------------------------------------------------------------------------
(* GraphicsItem: dragging the item D over the scene *)

\* the scene: the dragged item D, two more GraphicsItems, and a text item
\* (the number label), which is no GraphicsItem
GraphicsItems == {"D", "A", "B"}
SceneItems == GraphicsItems \cup {"T"}

\* the item lists scene().items(pos) can return: distinct items, topmost first
ItemsAt ==
    {<< >>} \cup {<<x>> : x \in SceneItems}
            \cup {p \in SceneItems \X SceneItems : p[1] # p[2]}

\* the first GraphicsItem of the list that is not D and accepts drops
DropTargets(under) ==
    {j \in 1..Len(under) :
        under[j] \in GraphicsItems \ {"D"} /\ accept_drops[under[j]]}

LeastOf(S) == CHOOSE x \in S : \A y \in S : x <= y

TargetAt(under) ==
    IF DropTargets(under) = {} THEN None ELSE under[LeastOf(DropTargets(under))]

\* a mouseMoveEvent that moves on to the new item without the
\* dragLeaveEvent of the old one
MouseMoveEventNoLeave(under, half) ==
    LET item == TargetAt(under)
    IN  /\ op' = "mouseMoveEvent"
        /\ IF item_under_mouse # None /\ item_under_mouse # item
           THEN /\ item_under_mouse' = item
                /\ drag_over' =
                      IF item # None
                      THEN [drag_over EXCEPT ![item] = TRUE]
                      ELSE drag_over
                /\ UNCHANGED drop_indicator_position
           ELSE IF item_under_mouse # None /\ item_under_mouse = item
           THEN /\ drop_indicator_position' =
                      [drop_indicator_position EXCEPT ![item_under_mouse] = half]
                /\ UNCHANGED <<item_under_mouse, drag_over>>
           ELSE IF item # None
           THEN /\ item_under_mouse' = item
                /\ drag_over' = [drag_over EXCEPT ![item] = TRUE]
                /\ UNCHANGED drop_indicator_position
           ELSE UNCHANGED <<item_under_mouse, drag_over, drop_indicator_position>>
        /\ UNCHANGED <<hover_active, accept_drops, selected, args, ret,
                       stft_locals, specvars>>

\* D.mouseMoveEvent with the items `under` at the cursor, the cursor in the
\* upper (AboveItem) or lower (BelowItem) half of the item under it
MouseMoveEvent(under, half) ==
    LET item == TargetAt(under)
    IN  /\ op' = "mouseMoveEvent"
        /\ IF item_under_mouse # None /\ item_under_mouse # item
           THEN \* dragLeaveEvent of the old item, dragEnterEvent of the new
                /\ item_under_mouse' = item
                /\ drag_over' =
                      IF item # None
                      THEN [drag_over EXCEPT ![item_under_mouse] = FALSE,
                                             ![item] = TRUE]
                      ELSE [drag_over EXCEPT ![item_under_mouse] = FALSE]
                /\ UNCHANGED drop_indicator_position
           ELSE IF item_under_mouse # None /\ item_under_mouse = item
           THEN \* update_drop_indicator of the item under the mouse
                /\ drop_indicator_position' =
                      [drop_indicator_position EXCEPT ![item_under_mouse] = half]
                /\ UNCHANGED <<item_under_mouse, drag_over>>
           ELSE IF item # None
           THEN /\ item_under_mouse' = item
                /\ drag_over' = [drag_over EXCEPT ![item] = TRUE]
                /\ UNCHANGED drop_indicator_position
           ELSE UNCHANGED <<item_under_mouse, drag_over, drop_indicator_position>>
        /\ UNCHANGED <<hover_active, accept_drops, selected, args, ret,
                       stft_locals, specvars>>

\* D.mouseReleaseEvent
MouseReleaseEvent ==
    /\ op' = "mouseReleaseEvent"
    /\ IF item_under_mouse # None
       THEN /\ drag_over' = [drag_over EXCEPT ![item_under_mouse] = FALSE]
            /\ selected' = [selected EXCEPT ![item_under_mouse] = FALSE]
            /\ item_under_mouse' = None
       ELSE UNCHANGED <<drag_over, selected, item_under_mouse>>
    /\ UNCHANGED <<drop_indicator_position, hover_active, accept_drops, args,
                   ret, stft_locals, specvars>>

\* x.hoverEnterEvent
HoverEnterEvent(x) ==
    /\ op' = "hoverEnterEvent"
    /\ hover_active' = [hover_active EXCEPT ![x] = TRUE]
    /\ UNCHANGED <<item_under_mouse, drag_over, drop_indicator_position,
                   accept_drops, selected, args, ret, stft_locals, specvars>>

\* x.hoverLeaveEvent
HoverLeaveEvent(x) ==
    /\ op' = "hoverLeaveEvent"
    /\ hover_active' = [hover_active EXCEPT ![x] = FALSE]
    /\ UNCHANGED <<item_under_mouse, drag_over, drop_indicator_position,
                   accept_drops, selected, args, ret, stft_locals, specvars>>

\* x.set_flags(accept_drops=b)
SetFlags(x, b) ==
    /\ op' = "set_flags"
    /\ accept_drops' = [accept_drops EXCEPT ![x] = b]
    /\ UNCHANGED <<item_under_mouse, drag_over, drop_indicator_position,
                   hover_active, selected, args, ret, stft_locals, specvars>>

\* x.select_all(), of an item without children
SelectAll(x) ==
    /\ op' = "select_all"
    /\ selected' = [selected EXCEPT ![x] = TRUE]
    /\ UNCHANGED <<item_under_mouse, drag_over, drop_indicator_position,
                   hover_active, accept_drops, args, ret, stft_locals, specvars>>

InitDrag ==
    /\ NoObject /\ NoCall
    /\ item_under_mouse = None
    /\ drag_over = [x \in GraphicsItems |-> FALSE]
    /\ drop_indicator_position = [x \in GraphicsItems |-> None]
    /\ hover_active = [x \in GraphicsItems |-> FALSE]
    /\ accept_drops = [x \in GraphicsItems |-> FALSE]
    /\ selected = [x \in GraphicsItems |-> FALSE]

NextDrag ==
    \/ \E under \in ItemsAt, half \in {"AboveItem", "BelowItem"} :
          MouseMoveEvent(under, half)
    \/ MouseReleaseEvent
    \/ \E x \in GraphicsItems : HoverEnterEvent(x)
    \/ \E x \in GraphicsItems : HoverLeaveEvent(x)
    \/ \E x \in GraphicsItems, b \in BOOLEAN : SetFlags(x, b)
    \/ \E x \in GraphicsItems : SelectAll(x)

SpecDrag == InitDrag /\ [][NextDrag]_vars

-----------------------------------------------------------------------------
(* Claims about the transform *)

StftRan == op \in {"__init__", "stft"} /\ stft_locals.reached # "none"

OutsideUnitInterval(f) == f.num < 0 \/ f.num >= f.den

\* the parameters the constructor documents: a window of at least one sample,
\* an overlap factor in [0,1), a buffer at least as long as the window
DocumentedInput ==
    /\ stft_locals.window_size >= 1
    /\ ~OutsideUnitInterval(stft_locals.overlap_factor)
    /\ stft_locals.len >= stft_locals.window_size

\* C1: whenever stft() has padded the samples with hop_size >= 1, the padded
\* length satisfies (len(padded) - window_size) mod hop_size = 0, so that the
\* last window ends at the end of the padded buffer. Stated here for the
\* documented parameters, where it already fails.
C1_PaddedLengthAligned ==
    (StftRan /\ DocumentedInput /\ stft_locals.reached = "frames"
             /\ stft_locals.hop_size >= 1)
        => (stft_locals.padded_len - stft_locals.window_size)
               % stft_locals.hop_size = 0

\* C2: stft() raises, and returns no frames, whenever hop_size <= 0 or the
\* overlap factor lies outside [0,1); whenever it returns, hop_size >= 1.
C2_DegenerateHopRejected ==
    StftRan =>
        /\ (stft_locals.hop_size <= 0 \/ OutsideUnitInterval(stft_locals.overlap_factor))
               => ret.status # "ok"
        /\ ret.status = "ok" => stft_locals.hop_size >= 1

\* C3: after construction, row i of the matrix is frame i of the transform
\* with only its frequency axis rotated: the cell at row i, column
\* (k + window_size \div 2) mod window_size is the decibel value of bin k of
\* frame i. Stated here for the documented parameters, where it already fails.
C3_RowsInTimeOrder ==
    (op = "__init__" /\ exists /\ DocumentedInput) =>
        LET fr == Stft(samples, window_size, overlap_factor, window_function).frames
            w == window_size
        IN  /\ Len(data) = Len(fr)
            /\ \A i \in 1..Len(fr) : \A k \in 0..(w - 1) :
                   data[i][((k + (w \div 2)) % w) + 1] = Power(fr[i][k + 1])

\* C9: when the sample buffer is shorter than the window, stft() (and so the
\* construction) raises instead of returning frames. Stated here for overlap
\* factors in [0,1), where it already fails.
C9_ShortBufferRejected ==
    (StftRan /\ ~OutsideUnitInterval(stft_locals.overlap_factor)
             /\ stft_locals.len < stft_locals.window_size)
        => ret.status # "ok"

-----------------------------------------------------------------------------
(* Claims about the object *)

SetterNames ==
    {"samples", "sample_rate", "window_size", "overlap_factor", "window_function"}

\* C7: a setter call leaves data, data_min, data_max, time_bins and freq_bins
\* as they were, and changes no parameter but its own.
C7_SettersKeepMatrix ==
    [][op' \in SetterNames =>
          /\ data' = data /\ data_min' = data_min /\ data_max' = data_max
          /\ time_bins' = time_bins /\ freq_bins' = freq_bins
          /\ exists' = exists
          /\ op' # "samples" => samples' = samples
          /\ op' # "sample_rate" => sample_rate' = sample_rate
          /\ op' # "window_size" => window_size' = window_size
          /\ op' # "overlap_factor" => overlap_factor' = overlap_factor
          /\ op' # "window_function" => window_function' = window_function]_vars

\* a setter has changed the window size away from the width of the cached matrix
C7_Witness == exists /\ op = "window_size" /\ window_size # freq_bins

-----------------------------------------------------------------------------
(* Claims about the colormap lookup *)

NormalizedLookupDone ==
    /\ op = "apply_bgra_lookup" /\ ret.status = "ok" /\ args.normalize

\* the cells of the looked-up matrix
Cells == {rc \in (1..MaxRows + 1) \X (1..MaxCols + 1) :
            rc[1] <= Len(args.data) /\ rc[2] <= Len(args.data[1])}
CellValue(rc) == args.data[rc[1]][rc[2]]
\* the index taken for the cell: the result is laid out transposed
CellIndex(rc) == ret.indices[rc[2]][rc[1]]

\* the exact value x = (N - 1) * (v - data_min) / (data_max - data_min) of a
\* cell as a fraction with a positive denominator, clamped to [0, N - 1]
XDen == Abs(args.data_max[1] - args.data_min[1])
XNum(rc) ==
    (Len(args.colormap) - 1) * (CellValue(rc) - args.data_min[1])
        * Sign(args.data_max[1] - args.data_min[1])
ClampedXNum(rc) ==
    IF XNum(rc) < 0 THEN 0
    ELSE IF XNum(rc) > (Len(args.colormap) - 1) * XDen
         THEN (Len(args.colormap) - 1) * XDen
         ELSE XNum(rc)

\* C4 as claimed: with normalize=True (and data_min # data_max) every cell is
\* mapped to the integer nearest to clamp(x, 0, N - 1), an index in [0, N-1].
C4_IndexRounded ==
    (NormalizedLookupDone /\ args.data_max # args.data_min) =>
        \A rc \in Cells :
            /\ CellIndex(rc) \in 0..(Len(args.colormap) - 1)
            /\ 2 * Abs(CellIndex(rc) * XDen - ClampedXNum(rc)) <= XDen

\* C4 as amended: with normalize=True and data_min # data_max every cell is
\* mapped to x truncated toward zero and then clamped to [0, N - 1]; the
\* index always lies in [0, N - 1], also for values outside the bounds.
C4_IndexTruncated ==
    (NormalizedLookupDone /\ args.data_max # args.data_min) =>
        \A rc \in Cells :
            LET tr == IntTrunc(XNum(rc), XDen)
                top == Len(args.colormap) - 1
            IN  /\ CellIndex(rc) \in 0..top
                /\ CellIndex(rc) = IF tr < 0 THEN 0 ELSE IF tr > top THEN top ELSE tr

\* a lookup in which one cell's x has a fraction of at least a half (rounding
\* and truncation differ) and another cell lies above data_max
C4_Witness ==
    /\ NormalizedLookupDone /\ args.data_max # args.data_min
    /\ \E rc \in Cells :
          /\ XNum(rc) > 0 /\ XNum(rc) < (Len(args.colormap) - 1) * XDen
          /\ 2 * (XNum(rc) % XDen) > XDen
    /\ \E rc \in Cells : CellValue(rc) > args.data_max[1]
                          /\ CellValue(rc) > args.data_min[1]

\* C5: with normalize=True and data_min < data_max, a cell equal to data_min
\* is mapped to index 0 and a cell equal to data_max to index N - 1.
C5_BoundsMapToEnds ==
    (NormalizedLookupDone /\ args.data_min[1] < args.data_max[1]) =>
        \A rc \in Cells :
            /\ CellValue(rc) = args.data_min[1] => CellIndex(rc) = 0
            /\ CellValue(rc) = args.data_max[1]
                   => CellIndex(rc) = Len(args.colormap) - 1

\* a lookup whose matrix holds both data_min and data_max, on several colours
C5_Witness ==
    /\ NormalizedLookupDone /\ args.data_min[1] < args.data_max[1]
    /\ Len(args.colormap) >= 3
    /\ \E rc \in Cells : CellValue(rc) = args.data_min[1] /\ CellIndex(rc) = 0
    /\ \E rc \in Cells : CellValue(rc) = args.data_max[1]
                          /\ CellIndex(rc) = Len(args.colormap) - 1

\* C6: with normalize=True and data_max = data_min the lookup divides by no
\* zero and maps every cell to index 0.
C6_DegenerateRangeGuarded ==
    (/\ op = "apply_bgra_lookup" /\ args.normalize
     /\ args.data_min # NoValue /\ args.data_max # NoValue
     /\ args.data_min = args.data_max)
        => /\ ret.status = "ok"
           /\ ~ret.div_by_zero
           /\ \A rc \in Cells : CellIndex(rc) = 0

\* C8: create_colormap_image gives an image of `height` rows and
\* len(colormap) columns whose pixel at row r, column c is colormap entry c.
C8_StripColumnsAreEntries ==
    op = "create_colormap_image" =>
        /\ ret.status = "ok"
        /\ ret.height = args.height /\ ret.width = Len(args.colormap)
        /\ Len(ret.image) = args.height
        /\ \A r \in 1..Len(ret.image) : Len(ret.image[r]) = Len(args.colormap)
        /\ \A r \in 1..Len(ret.image) : \A c \in 1..Len(args.colormap) :
              ret.image[r][c] = args.colormap[c]

\* a strip of several rows over several colours, not square
C8_Witness ==
    /\ op = "create_colormap_image" /\ ret.status = "ok"
    /\ args.height >= 2 /\ Len(args.colormap) > args.height

-----------------------------------------------------------------------------
(* Claims about the drag *)

\* C10: through any sequence of D.mouseMoveEvent and D.mouseReleaseEvent
\* calls, an item has drag_over = True exactly when it is D.item_under_mouse
\* (so at most one item shows the drop indicator), and after
\* mouseReleaseEvent there is no item under the mouse and no drag_over.
C10_DragOverIsItemUnderMouse ==
    /\ \A x \in GraphicsItems : drag_over[x] = (x = item_under_mouse)
    /\ Cardinality({x \in GraphicsItems : drag_over[x]}) <= 1
    /\ op = "mouseReleaseEvent" =>
          /\ item_under_mouse = None
          /\ \A x \in GraphicsItems : ~drag_over[x]

\* the drag has moved from A (whose indicator was placed) on to B
C10_Witness ==
    /\ op = "mouseMoveEvent"
    /\ item_under_mouse = "B" /\ drag_over["B"]
    /\ drop_indicator_position["A"] # None

=============================================================================
